---- MODULE Spec2Model ----
(***************************************************************************)
(* Model of the projection engine of src/src/App.tsx: calculateMortgage,   *)
(* calculateOutput, calculateHouseValue, calculateSummary and the          *)
(* best-option choice of OutputSummary.                                    *)
(*                                                                         *)
(* JavaScript numbers are modelled as exact rationals (numerator and       *)
(* denominator of arbitrary size), so the arithmetic is the arithmetic     *)
(* of the reals that the program's formulas denote; floating-point         *)
(* rounding is not modelled.  Division by zero (NaN / Infinity) is outside *)
(* the modelled domain: calls whose mortgage denominator is zero are not   *)
(* drawn as inputs.                                                        *)
(***************************************************************************)
EXTENDS Integers, Sequences, FiniteSets, TLC

(***************************************************************************)
(* Natural numbers of arbitrary size: little-endian sequences of limbs,    *)
(* without leading zero limbs; <<>> is zero.                               *)
(***************************************************************************)
Base == 10 ^ 4

Limb(a, i) == IF i <= Len(a) THEN a[i] ELSE 0

\* the highest index in lo..hi of a nonzero limb of a, or 0
RECURSIVE NTop(_, _, _)
NTop(a, lo, hi) ==
  IF lo > hi THEN 0
  ELSE IF lo = hi THEN (IF a[lo] = 0 THEN 0 ELSE lo)
  ELSE LET mid == (lo + hi) \div 2
           top == NTop(a, mid + 1, hi)
       IN  IF top # 0 THEN top ELSE NTop(a, lo, mid)

NNorm(a) == SubSeq(a, 1, NTop(a, 1, Len(a)))

RECURSIVE NFromInt(_)
NFromInt(k) == IF k = 0 THEN <<>> ELSE <<k % Base>> \o NFromInt(k \div Base)

\* the limbs lo..hi of a + b + c and the carry out of them
RECURSIVE NAddC(_, _, _, _, _)
NAddC(a, b, lo, hi, c) ==
  IF lo = hi
  THEN LET s == Limb(a, lo) + Limb(b, lo) + c
       IN  [v |-> <<s % Base>>, c |-> s \div Base]
  ELSE LET mid  == (lo + hi) \div 2
           low  == NAddC(a, b, lo, mid, c)
           high == NAddC(a, b, mid + 1, hi, low.c)
       IN  [v |-> low.v \o high.v, c |-> high.c]

\* the limbs r.v with the carry r.c above them
NCarry(r) == IF r.c = 0 THEN r.v ELSE r.v \o <<r.c>>

NAdd(a, b) ==
  IF a = <<>> THEN b
  ELSE IF b = <<>> THEN a
  ELSE NCarry(NAddC(a, b, 1, IF Len(a) >= Len(b) THEN Len(a) ELSE Len(b), 0))

\* the limbs lo..hi of a - b - c and the borrow out of them
RECURSIVE NSubC(_, _, _, _, _)
NSubC(a, b, lo, hi, c) ==
  IF lo = hi
  THEN LET s == a[lo] - Limb(b, lo) - c
       IN  IF s < 0 THEN [v |-> <<s + Base>>, c |-> 1] ELSE [v |-> <<s>>, c |-> 0]
  ELSE LET mid  == (lo + hi) \div 2
           low  == NSubC(a, b, lo, mid, c)
           high == NSubC(a, b, mid + 1, hi, low.c)
       IN  [v |-> low.v \o high.v, c |-> high.c]

\* a - b for a >= b
NSub(a, b) ==
  IF a = <<>> \/ b = <<>> THEN a ELSE NNorm(NSubC(a, b, 1, Len(a), 0).v)

\* the order of a and b on their limbs lo..hi: -1, 0 or 1
RECURSIVE NCmpAt(_, _, _, _)
NCmpAt(a, b, lo, hi) ==
  IF lo > hi THEN 0
  ELSE IF lo = hi
  THEN (IF a[lo] > b[lo] THEN 1 ELSE IF a[lo] < b[lo] THEN -1 ELSE 0)
  ELSE LET mid == (lo + hi) \div 2
           top == NCmpAt(a, b, mid + 1, hi)
       IN  IF top # 0 THEN top ELSE NCmpAt(a, b, lo, mid)

NCmp(a, b) ==
  IF Len(a) > Len(b) THEN 1
  ELSE IF Len(a) < Len(b) THEN -1
  ELSE NCmpAt(a, b, 1, Len(a))

\* the limbs lo..hi of a * m + c and the carry out of them
RECURSIVE NMulSmallC(_, _, _, _, _)
NMulSmallC(a, m, lo, hi, c) ==
  IF lo = hi
  THEN LET s == Limb(a, lo) * m + c
       IN  [v |-> <<s % Base>>, c |-> s \div Base]
  ELSE LET mid  == (lo + hi) \div 2
           low  == NMulSmallC(a, m, lo, mid, c)
           high == NMulSmallC(a, m, mid + 1, hi, low.c)
       IN  [v |-> low.v \o high.v, c |-> high.c]

\* a * m for a limb m
NMulSmall(a, m) ==
  IF m = 0 \/ a = <<>> THEN <<>>
  ELSE NCarry(NMulSmallC(a, m, 1, Len(a), 0))

NShift(a, k) == IF a = <<>> THEN a ELSE [i \in 1..k |-> 0] \o a

\* a[lo..hi] * b * Base^(lo-1)
RECURSIVE NMulAt(_, _, _, _)
NMulAt(a, b, lo, hi) ==
  IF lo = hi THEN NShift(NMulSmall(b, a[lo]), lo - 1)
  ELSE LET mid == (lo + hi) \div 2
       IN  NAdd(NMulAt(a, b, lo, mid), NMulAt(a, b, mid + 1, hi))

NMul(a, b) ==
  IF a = <<>> \/ b = <<>> THEN <<>>
  ELSE NMulAt(IF Len(a) <= Len(b) THEN a ELSE b,
              IF Len(a) <= Len(b) THEN b ELSE a,
              1, IF Len(a) <= Len(b) THEN Len(a) ELSE Len(b))

\* the estimate of a quotient limb from the two highest limbs of the
\* remainder and the highest limb of the divisor, at most Base - 1
NQEstimate(top, btop) ==
  IF top \div btop >= Base THEN Base - 1 ELSE top \div btop

\* the quotient limb of r by b given an estimate that is at most 2 above it
NQPick(r, b, est) ==
  IF NCmp(NMulSmall(b, est), r) <= 0 THEN est
  ELSE IF NCmp(NMulSmall(b, est - 1), r) <= 0 THEN est - 1
  ELSE est - 2

\* the quotient limb of r by b, for Len(r) <= Len(b) + 1 and a highest limb
\* of b of at least Base / 2
NQDigit(r, b) ==
  NQPick(r, b, NQEstimate(Limb(r, Len(b) + 1) * Base + Limb(r, Len(b)),
                          b[Len(b)]))

\* one step of the long division: the quotient limb d and the remainder
NDivStep(cur, b, d) == [q |-> <<d>>, r |-> NSub(cur, NMulSmall(b, d))]

NDivLimb(cur, b) == NDivStep(cur, b, NQDigit(cur, b))

\* the quotient limbs of two adjacent ranges, highest first
NDivJoin(high, low) == [q |-> high.q \o low.q, r |-> low.r]

\* long division by b of the limbs hi, hi - 1, ..., lo of a below the
\* running remainder r: the quotient limbs, highest first, and the new
\* remainder
RECURSIVE NDivModAt(_, _, _, _, _)
NDivModLow(a, b, lo, mid, high) ==
  NDivJoin(high, NDivModAt(a, b, lo, mid, high.r))

NDivModAt(a, b, lo, hi, r) ==
  IF lo = hi THEN NDivLimb(NNorm(<<a[lo]>> \o r), b)
  ELSE NDivModLow(a, b, lo, (lo + hi) \div 2,
                  NDivModAt(a, b, (lo + hi) \div 2 + 1, hi, r))

NReverse(q) == [i \in 1..Len(q) |-> q[Len(q) + 1 - i]]

NDivResult(qr) == [q |-> NNorm(NReverse(qr.q)), exact |-> qr.r = <<>>]

NDivScaled(af, bf) == NDivResult(NDivModAt(af, bf, 1, Len(af), <<>>))

\* the quotient of a by b, b # 0, and whether the division is exact; both
\* are scaled first so that the highest limb of the divisor is at least
\* Base / 2
NDivMod(a, b) ==
  IF a = <<>> \/ b = <<1>> THEN [q |-> a, exact |-> TRUE]
  ELSE NDivScaled(NMulSmall(a, Base \div (b[Len(b)] + 1)),
                  NMulSmall(b, Base \div (b[Len(b)] + 1)))

NToInt(a) == Limb(a, 1) + Base * Limb(a, 2)

RECURSIVE GCD(_, _)
GCD(a, b) == IF b = 0 THEN a ELSE GCD(b, a % b)

(***************************************************************************)
(* Exact rationals: [neg, n, d] is (-1)^neg * n / d with d # 0.            *)
(***************************************************************************)
Rat(neg, n, d) == [neg |-> neg /\ n # <<>>, n |-> n, d |-> d]

\* the lowest index in lo..hi where a or b has a nonzero limb, or hi + 1
RECURSIVE NLow(_, _, _, _)
NLow(a, b, lo, hi) ==
  IF lo > hi THEN lo
  ELSE IF lo = hi THEN (IF a[lo] = 0 /\ b[lo] = 0 THEN lo + 1 ELSE lo)
  ELSE LET mid == (lo + hi) \div 2
           low == NLow(a, b, lo, mid)
       IN  IF low <= mid THEN low ELSE NLow(a, b, mid + 1, hi)

\* the number of low zero limbs that a and b have in common
NZeros(a, b) ==
  NLow(a, b, 1, IF Len(a) <= Len(b) THEN Len(a) ELSE Len(b)) - 1

\* n / d in lowest terms when both parts fit two limbs
RLowest(neg, n, d, g) ==
  Rat(neg, NFromInt(NToInt(n) \div g), NFromInt(NToInt(d) \div g))

RReduce(neg, n, d) ==
  IF Len(n) <= 2 /\ Len(d) <= 2
  THEN RLowest(neg, n, d, GCD(NToInt(n), NToInt(d)))
  ELSE Rat(neg, n, d)

\* x without the k low zero limbs that its parts have in common
RCancel(x, k) ==
  RReduce(x.neg, SubSeq(x.n, k + 1, Len(x.n)), SubSeq(x.d, k + 1, Len(x.d)))

\* a common power of Base is cancelled; lowest terms when both parts fit
\* two limbs; zero is always 0/1
RNorm(x) ==
  IF x.n = <<>> THEN Rat(FALSE, <<>>, <<1>>) ELSE RCancel(x, NZeros(x.n, x.d))

\* the number p / q for integers p and q > 0
Frac(p, q) ==
  RNorm(Rat(p < 0, NFromInt(IF p < 0 THEN -p ELSE p), NFromInt(q)))

Num(k) == Frac(k, 1)

RNeg(x) == [neg |-> ~x.neg /\ x.n # <<>>, n |-> x.n, d |-> x.d]

\* x + y when both have the denominator d
RAddSame(xneg, xn, yneg, yn, d) ==
  IF xneg = yneg THEN Rat(xneg, NAdd(xn, yn), d)
  ELSE IF NCmp(xn, yn) >= 0 THEN Rat(xneg, NSub(xn, yn), d)
  ELSE Rat(yneg, NSub(yn, xn), d)

\* big + small over the denominator of big when it is qr.q times that of
\* small (qr.exact), and over the product of the denominators otherwise
RAddOver(big, small, qr) ==
  RAddSame(big.neg, NMul(big.n, IF qr.exact THEN <<1>> ELSE small.d),
           small.neg, NMul(small.n, IF qr.exact THEN qr.q ELSE big.d),
           IF qr.exact THEN big.d ELSE NMul(big.d, small.d))

\* big + small for a denominator of big that is at least that of small
RAddOrdered(big, small) ==
  IF big.d = small.d
  THEN RAddSame(big.neg, big.n, small.neg, small.n, big.d)
  ELSE RAddOver(big, small, NDivMod(big.d, small.d))

RAdd(x, y) ==
  RNorm(RAddOrdered(IF NCmp(x.d, y.d) >= 0 THEN x ELSE y,
                    IF NCmp(x.d, y.d) >= 0 THEN y ELSE x))

RSub(x, y) == RAdd(x, RNeg(y))

RMul(x, y) ==
  IF x.n = <<>> \/ y.n = <<>> THEN Rat(FALSE, <<>>, <<1>>)
  ELSE RNorm(Rat(x.neg # y.neg, NMul(x.n, y.n), NMul(x.d, y.d)))

\* x / y for y # 0
RDiv(x, y) ==
  IF x.n = <<>> /\ y.n # <<>> THEN Rat(FALSE, <<>>, <<1>>)
  ELSE RNorm(Rat(x.neg # y.neg, NMul(x.n, y.d), NMul(x.d, y.n)))

RIsZero(x) == x.n = <<>>

REq(x, y) ==
  /\ x.neg = y.neg
  /\ IF x.d = y.d THEN x.n = y.n ELSE NMul(x.n, y.d) = NMul(y.n, x.d)

\* x < y
RLt(x, y) ==
  IF x.neg # y.neg THEN x.neg
  ELSE NCmp(NMul(x.n, y.d), NMul(y.n, x.d)) = (IF x.neg THEN 1 ELSE -1)

RLe(x, y) == ~RLt(y, x)

\* Math.max
RMax(x, y) == IF RLt(x, y) THEN y ELSE x

\* Math.pow(x, n) for an integer n >= 0
RECURSIVE RPow(_, _)
RPowStep(square, x, n) == IF n % 2 = 0 THEN square ELSE RMul(square, x)

RPowSquare(h, x, n) == RPowStep(RMul(h, h), x, n)

RPow(x, n) == IF n = 0 THEN Num(1) ELSE RPowSquare(RPow(x, n \div 2), x, n)

(***************************************************************************)
(* Constants of the program and bounds of the model.                       *)
(***************************************************************************)
INFLATION_RATE == Frac(3, 100)
INVESTMENT_RATE == Frac(7, 100)

\* the reference term of the paid-off proxy, the literal 30 of calculateOutput
PaidOffYears == 30

\* the horizons 1..MaxYears are explored with every input of Inputs
MaxYears == 3

\* the largest expected house cost drawn as an input
MaxHouseCost == 100

\* a horizon beyond the reference term of the paid-off proxy
LongYears == PaidOffYears + 1

Options == {"rent", "buy5", "buy20"}

InputData(cash, income, rent, cost, yrs, interest, fees) ==
  [startingCash |-> Num(cash), monthlyIncome |-> Num(income),
   currentRent |-> Num(rent), expectedHouseCost |-> Num(cost),
   years |-> yrs, homeInterest |-> interest, taxes |-> Num(fees)]

\* the inputs the contract calls valid
ValidInputs ==
  { InputData(cash, income, rent, cost, yrs, Frac(12, 100), fees) :
      cash \in {0, MaxHouseCost \div 5, MaxHouseCost}, income \in {0, 10},
      rent \in {0, 5}, cost \in {0, MaxHouseCost}, yrs \in 1..MaxYears,
      fees \in {0, 1} }

\* inputs the contract calls invalid: a negative monetary field
NegativeInputs ==
  { InputData(-10, income, rent, MaxHouseCost, yrs, Frac(12, 100), 0) :
      income \in {0, 10}, rent \in {5, -5}, yrs \in 1..MaxYears }

\* inputs the contract calls invalid: a horizon that is not positive
NoYearsInputs ==
  { InputData(MaxHouseCost \div 5, 10, 5, MaxHouseCost, yrs, Frac(12, 100), 0) :
      yrs \in {0, -1} }

\* inputs with a horizon beyond the reference term of the paid-off proxy
LongInputs ==
  { InputData(cash, income, 5, MaxHouseCost, LongYears, Num(12), 0) :
      cash \in {0, MaxHouseCost \div 5}, income \in {10} }

IsNonNegative(v) == ~v.neg

\* years >= 1 and non-negative monetary fields
IsValid(inp) ==
  /\ inp.years >= 1
  /\ IsNonNegative(inp.startingCash)
  /\ IsNonNegative(inp.monthlyIncome)
  /\ IsNonNegative(inp.currentRent)
  /\ IsNonNegative(inp.expectedHouseCost)
  /\ IsNonNegative(inp.taxes)

(***************************************************************************)
(* The pure functions of the engine.                                       *)
(***************************************************************************)
\* numerator / denominator of calculateMortgage
MortgagePayment(principal, monthlyRate, n) ==
  RDiv(RMul(RMul(principal, monthlyRate), RPow(RAdd(Num(1), monthlyRate), n)),
       RSub(RPow(RAdd(Num(1), monthlyRate), n), Num(1)))

calculateMortgage(houseCost, downPayment, extraMonthlyFees, interestRate, years) ==
  RAdd(MortgagePayment(RSub(houseCost, downPayment),
                       RDiv(interestRate, Num(12)), years * 12),
       extraMonthlyFees)

calculateHouseValue(type, inp, years) ==
  IF type = "rent" THEN Num(0)
  ELSE RMul(inp.expectedHouseCost, RPow(RAdd(Num(1), INFLATION_RATE), years))

\* the down payment computed before the loop
DownPayment(option, inp) ==
  IF option = "buy5" THEN RMul(inp.expectedHouseCost, Frac(5, 100))
  ELSE IF option = "buy20" THEN RMul(inp.expectedHouseCost, Frac(2, 10))
  ELSE Num(0)

\* a loop that stops one year early
LoopCondExclusive(year, years) == year < years

\* the condition of the year loop
LoopCond(year, years) == year <= years

\* a deduction that is not restricted to year 0
SubtractDownPaymentEveryYear(option, year, cash, inp) ==
  IF option = "buy5"
  THEN RSub(cash, RMul(Frac(5, 100), inp.expectedHouseCost))
  ELSE IF option = "buy20"
  THEN RSub(cash, RMul(Frac(2, 10), inp.expectedHouseCost))
  ELSE cash

\* the cash after the block "subtract the down payment"
SubtractDownPayment(option, year, cash, inp) ==
  IF year = 0 /\ option = "buy5"
  THEN RSub(cash, RMul(Frac(5, 100), inp.expectedHouseCost))
  ELSE IF year = 0 /\ option = "buy20"
  THEN RSub(cash, RMul(Frac(2, 10), inp.expectedHouseCost))
  ELSE cash

\* the net investment added before the investment returns are applied
NextCashGrowAll(cash, netInv) ==
  RMul(RAdd(cash, netInv), RAdd(Num(1), INVESTMENT_RATE))

\* the investment returns and the net investment added to the cash
NextCash(cash, netInv) ==
  RAdd(RMul(cash, RAdd(Num(1), INVESTMENT_RATE)), netInv)

\* a rent that grows by the investment rate
NextRentOrMortgageInvested(option, rom) ==
  IF option = "rent" THEN RMul(rom, RAdd(Num(1), INVESTMENT_RATE)) ELSE rom

\* a housing cost that grows by the inflation rate in every scenario
NextRentOrMortgageInflated(option, rom) ==
  RMul(rom, RAdd(Num(1), INFLATION_RATE))

\* the rent grows by the inflation rate, the mortgage stays constant
NextRentOrMortgage(option, rom) ==
  IF option = "rent" THEN RMul(rom, RAdd(Num(1), INFLATION_RATE)) ELSE rom

PaidOffHouse(hv, year) ==
  RMul(RDiv(hv, Num(PaidOffYears)), Num(IF year + 1 < 0 THEN 0 ELSE year + 1))

(***************************************************************************)
(* State: the input record, the caller (the tables of App or the summary   *)
(* of OutputSummary), the locals of the running calculateOutput call, the  *)
(* arrays returned so far, and the results of calculateSummary and         *)
(* OutputSummary.                                                          *)
(***************************************************************************)
VARIABLES inputData, caller, option, pc, year, initialCash, downPayment,
          houseValue, rentOrMortgage, moneySpent, moneyAvailable,
          netInvestment, netWorth, outputData, returned, summaryData,
          bestOption, bold

locals == <<year, initialCash, downPayment, houseValue, rentOrMortgage,
            moneySpent, moneyAvailable, netInvestment, netWorth, outputData>>

vars == <<inputData, caller, option, pc, year, initialCash, downPayment,
          houseValue, rentOrMortgage, moneySpent, moneyAvailable,
          netInvestment, netWorth, outputData, returned, summaryData,
          bestOption, bold>>

\* calculateMortgage divides by (1 + r)^n - 1: finite for r > 0 and n > 0
MortgageDefined(inp) == inp.years >= 1 /\ ~RIsZero(inp.homeInterest)

InitWith(inputs) ==
  /\ inputData \in inputs
  /\ caller \in {"table", "summary"}
  /\ option \in Options
  /\ caller = "summary" => option = "rent"
  /\ (caller = "summary" \/ option # "rent") => MortgageDefined(inputData)
  /\ pc = "start"
  /\ year = 0
  /\ initialCash = Num(0)
  /\ downPayment = Num(0)
  /\ houseValue = Num(0)
  /\ rentOrMortgage = Num(0)
  /\ moneySpent = Num(0)
  /\ moneyAvailable = Num(0)
  /\ netInvestment = Num(0)
  /\ netWorth = Num(0)
  /\ outputData = <<>>
  /\ returned = [o \in Options |-> <<>>]
  /\ summaryData = <<>>
  /\ bestOption = ""
  /\ bold = {}

Init == InitWith(ValidInputs \cup NegativeInputs \cup NoYearsInputs)

InitLong == InitWith(LongInputs)

\* calculateOutput up to the loop: the locals are initialised
Begin ==
  /\ pc = "start"
  /\ pc' = "loop"
  /\ outputData' = <<>>
  /\ initialCash' = inputData.startingCash
  /\ downPayment' = DownPayment(option, inputData)
  /\ houseValue' = IF option = "rent" THEN Num(0) ELSE inputData.expectedHouseCost
  /\ rentOrMortgage' =
       IF option = "rent" THEN inputData.currentRent
       ELSE calculateMortgage(inputData.expectedHouseCost, downPayment',
                              inputData.taxes, inputData.homeInterest,
                              inputData.years)
  /\ moneySpent' = RMul(rentOrMortgage', Num(12))
  /\ moneyAvailable' = inputData.monthlyIncome
  /\ netInvestment' = RSub(RMul(moneyAvailable', Num(12)), moneySpent')
  /\ netWorth' = initialCash'
  /\ year' = 0
  /\ UNCHANGED <<inputData, caller, option, returned, summaryData, bestOption, bold>>

\* one iteration of the year loop: push the snapshot, then update the locals
Iterate ==
  /\ pc = "loop"
  /\ LoopCond(year, inputData.years)
  /\ outputData' = Append(outputData,
       [year |-> year, initialCash |-> initialCash, houseValue |-> houseValue,
        rentOrMortgage |-> rentOrMortgage, moneySpent |-> moneySpent,
        moneyAvailable |-> moneyAvailable, netInvestment |-> netInvestment,
        netWorth |-> netWorth])
  /\ houseValue' = calculateHouseValue(option, inputData, year + 1)
  /\ initialCash' =
       NextCash(SubtractDownPayment(option, year, initialCash, inputData),
                netInvestment)
  /\ rentOrMortgage' = NextRentOrMortgage(option, rentOrMortgage)
  /\ moneySpent' = RMul(rentOrMortgage', Num(12))
  /\ netInvestment' = RSub(RMul(moneyAvailable, Num(12)), moneySpent')
  /\ netWorth' = RAdd(initialCash', PaidOffHouse(houseValue', year))
  /\ year' = year + 1
  /\ UNCHANGED <<inputData, caller, option, pc, downPayment, moneyAvailable,
                 returned, summaryData, bestOption, bold>>

\* the loop ends and calculateOutput returns its array to the caller;
\* calculateSummary goes on with the next option
Return ==
  /\ pc = "loop"
  /\ ~LoopCond(year, inputData.years)
  /\ returned' = [returned EXCEPT ![option] = outputData]
  /\ option' = IF caller = "table" THEN option
               ELSE IF option = "rent" THEN "buy5" ELSE "buy20"
  /\ pc' = IF caller = "table" THEN "done"
           ELSE IF option = "buy20" THEN "summary" ELSE "start"
  /\ UNCHANGED <<inputData, caller, summaryData, bestOption, bold, locals>>

Last(seq) == seq[Len(seq)]

\* the three rows of calculateSummary: the rent row reports its final value,
\* the buy rows report the net worth of their last snapshot
SummaryRows(finalValue1, last2, homeValue2, last3, homeValue3, best) ==
  [rent  |-> [cash |-> finalValue1, homeValue |-> Num(0),
              netWorth |-> finalValue1,
              difference |-> RSub(best, finalValue1)],
   buy5  |-> [cash |-> last2.initialCash, homeValue |-> homeValue2,
              netWorth |-> last2.netWorth,
              difference |-> RSub(best, last2.netWorth)],
   buy20 |-> [cash |-> last3.initialCash, homeValue |-> homeValue3,
              netWorth |-> last3.netWorth,
              difference |-> RSub(best, last3.netWorth)]]

\* finalValue1..3 and their Math.max
SummaryOf(finalValue1, finalValue2, finalValue3, last2, homeValue2, last3, homeValue3) ==
  SummaryRows(finalValue1, last2, homeValue2, last3, homeValue3,
              RMax(RMax(finalValue1, finalValue2), finalValue3))

calculateSummary(outputData1, last2, homeValue2, last3, homeValue3) ==
  SummaryOf(Last(outputData1).initialCash,
            RAdd(last2.initialCash, homeValue2),
            RAdd(last3.initialCash, homeValue3),
            last2, homeValue2, last3, homeValue3)

\* calculateSummary after its three calls of calculateOutput
Summary ==
  /\ pc = "summary"
  /\ summaryData' =
       calculateSummary(returned["rent"],
                        Last(returned["buy5"]),
                        calculateHouseValue("buy5", inputData, inputData.years),
                        Last(returned["buy20"]),
                        calculateHouseValue("buy20", inputData, inputData.years))
  /\ pc' = "render"
  /\ UNCHANGED <<inputData, caller, option, returned, bestOption, bold, locals>>

\* OutputSummary: the best option's name and the rows shown in bold green
Render ==
  /\ pc = "render"
  /\ bestOption' =
       IF RIsZero(summaryData.rent.difference) THEN "Renting"
       ELSE IF RIsZero(summaryData.buy5.difference)
       THEN "Buy a house with 5% down payment"
       ELSE "Buy a house with 20% down payment"
  /\ bold' = {o \in Options : RIsZero(summaryData[o].difference)}
  /\ pc' = "done"
  /\ UNCHANGED <<inputData, caller, option, returned, summaryData, locals>>

Next == Begin \/ Iterate \/ Return \/ Summary \/ Render

Spec == Init /\ [][Next]_vars

SpecLong == InitLong /\ [][Next]_vars

(***************************************************************************)
(* Properties.                                                             *)
(***************************************************************************)
Rank(o) == IF o = "rent" THEN 1 ELSE IF o = "buy5" THEN 2 ELSE 3

\* the calculateOutput call for option o has returned
HasReturned(o) ==
  IF caller = "table" THEN pc = "done" /\ o = option
  ELSE pc \in {"summary", "render", "done"} \/ Rank(o) < Rank(option)

\* the snapshots pushed so far for option o
Snapshots(o) == IF o = option /\ pc = "loop" THEN outputData ELSE returned[o]

HasSummary == caller = "summary" /\ pc \in {"render", "done"}

Growth == Frac(107, 100)

Inflation == Frac(103, 100)

DownFraction(o) ==
  IF o = "buy5" THEN Frac(1, 20) ELSE IF o = "buy20" THEN Frac(1, 5) ELSE Num(0)

\* the projected house value at the horizon: 0 for rent
HorizonValue(o) ==
  IF o = "rent" THEN Num(0)
  ELSE RMul(inputData.expectedHouseCost, RPow(Inflation, inputData.years))

\* final net worth: the last snapshot's cash plus the value at the horizon
FinalNetWorth(o) == RAdd(Last(returned[o]).initialCash, HorizonValue(o))

MaxFinalNetWorth ==
  RMax(FinalNetWorth("rent"), RMax(FinalNetWorth("buy5"), FinalNetWorth("buy20")))

\* C1: for a valid input every returned array has exactly years + 1
\* snapshots and their year fields are 0, 1, ..., years in that order.
C1_YearsPlusOneSnapshots ==
  IsValid(inputData) =>
    \A o \in Options :
      HasReturned(o) =>
        /\ Len(returned[o]) = inputData.years + 1
        /\ \A i \in 1..Len(returned[o]) : returned[o][i].year = i - 1

C1_Witness ==
  /\ IsValid(inputData)
  /\ inputData.years = 1
  /\ caller = "summary"
  /\ pc = "done"
  /\ Len(returned["buy20"]) = 2
  /\ Last(returned["buy20"]).year = 1

\* C2: in the summary every difference is the maximum final net worth minus
\* the scenario's own reported net worth, every difference is >= 0, some
\* difference is 0, and equal final net worths give three zero differences.
C2_DifferenceFromBest ==
  (IsValid(inputData) /\ HasSummary) =>
    /\ \A o \in Options :
         /\ REq(summaryData[o].difference,
                RSub(MaxFinalNetWorth, summaryData[o].netWorth))
         /\ IsNonNegative(summaryData[o].difference)
    /\ \E o \in Options : RIsZero(summaryData[o].difference)
    /\ (\A o \in Options : REq(FinalNetWorth(o), MaxFinalNetWorth))
         => \A o \in Options : RIsZero(summaryData[o].difference)

\* C3: in the summary the net worth of every row is the last snapshot's cash
\* plus the projected house value at the horizon, i.e. netWorth = cash +
\* homeValue.
C3_NetWorthIsCashPlusHome ==
  (IsValid(inputData) /\ HasSummary) =>
    \A o \in Options :
      /\ REq(summaryData[o].cash, Last(returned[o]).initialCash)
      /\ REq(summaryData[o].homeValue, HorizonValue(o))
      /\ REq(summaryData[o].netWorth,
             RAdd(summaryData[o].cash, summaryData[o].homeValue))

\* C4: the down payment leaves the cash exactly once, between snapshot 0 and
\* snapshot 1: snapshot 0 shows the starting cash, snapshot 1 shows
\* (startingCash - downPayment) * 1.07 + netInvestment of year 0, and every
\* later snapshot is the previous cash * 1.07 + the previous netInvestment;
\* for rent the down payment is 0.
C4_DownPaymentOnce ==
  \A o \in Options :
    LET a == Snapshots(o)
        paid == RMul(DownFraction(o), inputData.expectedHouseCost)
    IN  /\ Len(a) >= 1 => REq(a[1].initialCash, inputData.startingCash)
        /\ Len(a) >= 2 =>
             REq(a[2].initialCash,
                 RAdd(RMul(RSub(inputData.startingCash, paid), Growth),
                      a[1].netInvestment))
        /\ \A i \in 2..(Len(a) - 1) :
             REq(a[i + 1].initialCash,
                 RAdd(RMul(a[i].initialCash, Growth), a[i].netInvestment))

C4_Witness ==
  /\ IsValid(inputData)
  /\ option = "buy5"
  /\ pc = "loop"
  /\ Len(outputData) >= 3
  /\ ~RIsZero(inputData.expectedHouseCost)
  /\ ~REq(outputData[2].initialCash,
          RAdd(RMul(inputData.startingCash, Growth), outputData[1].netInvestment))

\* C5: an invalid input (years <= 0 or a negative monetary field) is
\* rejected: no snapshot is ever produced, nothing is returned and no
\* summary is computed.
C5_InvalidInputRejected ==
  ~IsValid(inputData) =>
    /\ outputData = <<>>
    /\ \A o \in Options : returned[o] = <<>>
    /\ summaryData = <<>>
    /\ pc # "done"

\* C6: in the rent scenario every snapshot has houseValue 0 and the
\* snapshot of year k has rentOrMortgage = currentRent * 1.03^k.
C6_RentSnapshots ==
  \A i \in 1..Len(Snapshots("rent")) :
    LET snap == Snapshots("rent")[i]
    IN  /\ RIsZero(snap.houseValue)
        /\ REq(snap.rentOrMortgage,
               RMul(inputData.currentRent, RPow(Inflation, snap.year)))

C6_Witness ==
  /\ IsValid(inputData)
  /\ ~RIsZero(inputData.currentRent)
  /\ ~RIsZero(inputData.expectedHouseCost)
  /\ Len(returned["rent"]) = 3
  /\ returned["rent"][3].year = 2

\* C7 as claimed: in a buy run the housing cost is the same in every
\* snapshot, and in a rent run it is strictly increasing from each snapshot
\* to the next, for every valid input.
C7_FlatMortgageRisingRent ==
  IsValid(inputData) =>
    /\ \A o \in {"buy5", "buy20"} :
         \A i \in 1..Len(Snapshots(o)) :
           REq(Snapshots(o)[i].rentOrMortgage, Snapshots(o)[1].rentOrMortgage)
    /\ \A i \in 1..(Len(Snapshots("rent")) - 1) :
         RLt(Snapshots("rent")[i].rentOrMortgage,
             Snapshots("rent")[i + 1].rentOrMortgage)

\* C7 as amended: in a buy run the housing cost is the same in every
\* snapshot; in a rent run it is strictly increasing from each snapshot to
\* the next when currentRent > 0, and it is 0 in every snapshot when
\* currentRent = 0.
C7_FlatMortgageRisingPositiveRent ==
  IsValid(inputData) =>
    /\ \A o \in {"buy5", "buy20"} :
         \A i \in 1..Len(Snapshots(o)) :
           REq(Snapshots(o)[i].rentOrMortgage, Snapshots(o)[1].rentOrMortgage)
    /\ \A i \in 1..(Len(Snapshots("rent")) - 1) :
         IF RIsZero(inputData.currentRent)
         THEN /\ RIsZero(Snapshots("rent")[i].rentOrMortgage)
              /\ RIsZero(Snapshots("rent")[i + 1].rentOrMortgage)
         ELSE RLt(Snapshots("rent")[i].rentOrMortgage,
                  Snapshots("rent")[i + 1].rentOrMortgage)

C7_Witness ==
  /\ IsValid(inputData)
  /\ ~RIsZero(inputData.currentRent)
  /\ ~RIsZero(inputData.expectedHouseCost)
  /\ Len(returned["rent"]) >= 3
  /\ Len(returned["buy5"]) >= 3
  /\ ~RIsZero(returned["buy5"][3].rentOrMortgage)

\* C8: every snapshot of a year k >= 1 has netWorth = cashBalance +
\* houseValue * min(1, k / 30), so netWorth <= cashBalance + houseValue,
\* and snapshot 0 has netWorth = startingCash.
C8_EquityAtMostHouseValue ==
  \A o \in Options :
    \A i \in 1..Len(Snapshots(o)) :
      LET snap == Snapshots(o)[i]
          part == IF snap.year >= PaidOffYears THEN Num(1)
                  ELSE Frac(snap.year, PaidOffYears)
      IN  IF snap.year = 0
          THEN REq(snap.netWorth, inputData.startingCash)
          ELSE /\ REq(snap.netWorth,
                      RAdd(snap.initialCash, RMul(snap.houseValue, part)))
               /\ RLe(snap.netWorth, RAdd(snap.initialCash, snap.houseValue))

\* C9: for 1 <= k < years the cash of snapshot k + 1 is the cash of
\* snapshot k * 1.07 + the netInvestment of snapshot k, which is
\* 12 * monthlyIncome - 12 * the housing cost of snapshot k; and in every
\* snapshot moneySpent = 12 * rentOrMortgage and netInvestment =
\* 12 * moneyAvailable - moneySpent.
C9_CashRecurrence ==
  \A o \in Options :
    LET a == Snapshots(o)
    IN  /\ \A i \in 1..Len(a) :
             /\ REq(a[i].moneySpent, RMul(Num(12), a[i].rentOrMortgage))
             /\ REq(a[i].netInvestment,
                    RSub(RMul(Num(12), a[i].moneyAvailable), a[i].moneySpent))
        /\ \A i \in 1..(Len(a) - 1) :
             (1 <= a[i].year /\ a[i].year < inputData.years) =>
               /\ a[i + 1].year = a[i].year + 1
               /\ REq(a[i + 1].initialCash,
                      RAdd(RMul(a[i].initialCash, Growth),
                           RSub(RMul(Num(12), inputData.monthlyIncome),
                                RMul(Num(12), a[i].rentOrMortgage))))

C9_Witness ==
  /\ IsValid(inputData)
  /\ ~RIsZero(inputData.currentRent)
  /\ ~RIsZero(inputData.monthlyIncome)
  /\ ~RIsZero(inputData.startingCash)
  /\ Len(returned["rent"]) >= 3
  /\ returned["rent"][2].year = 1
  /\ inputData.years >= 2

BestName(o) ==
  IF o = "rent" THEN "Renting"
  ELSE IF o = "buy5" THEN "Buy a house with 5% down payment"
  ELSE "Buy a house with 20% down payment"

\* C10: the option named as best has difference 0 and the maximal final net
\* worth, and the rows shown as best are exactly the rows with the maximal
\* final net worth.
C10_BestOptionIsBest ==
  (IsValid(inputData) /\ caller = "summary" /\ pc = "done") =>
    /\ \A o \in Options :
         bestOption = BestName(o) =>
           /\ RIsZero(summaryData[o].difference)
           /\ REq(FinalNetWorth(o), MaxFinalNetWorth)
    /\ bold = {o \in Options : REq(FinalNetWorth(o), MaxFinalNetWorth)}
====
